---- MODULE Spec2Model ----
(***************************************************************************)
(* Model of the retrieval services of devsync-automated-commits:           *)
(*   /search      src/rag_api.py            (rules, then embedding rank)   *)
(*   /similarity  src/similarity_api.py     (top-3 by cosine similarity)   *)
(*   /execute     src/function_caller_api.py (sentence templates)          *)
(* A text is a sequence of one-character strings, so that substring tests, *)
(* lower-casing and hashing are computed character by character.           *)
(* Python indices are 0-based; the sequences here are 1-based, so          *)
(* KNOWLEDGE_BASE[i] of the source is KNOWLEDGE_BASE[i + 1] here.          *)
(***************************************************************************)
EXTENDS Integers, Sequences, FiniteSets, TLC

VARIABLES
    env_key,       \* the OPENAI_API_KEY setting of the process environment
    hash_salt,     \* the process's string-hash randomisation (PYTHONHASHSEED)
    rng,           \* state of the process-wide generator of module random
    rng_on_entry,  \* what that state was when the handler of req was entered
    pc,            \* "idle": waiting for a request; "done": a handler has returned
    req,           \* the request handled last
    resp,          \* its response
    calls,         \* per call of get_embeddings / get_embedding it made, the texts handed
                   \* over, each named by its position among the request's texts
    sent,          \* how many of those calls reached the remote provider
    provider_failed, \* did the provider fail one of them (non-2xx, transport error)
    answered,      \* how many of them the provider answered
    dims,          \* the dimensions of the vectors it answered with, in order
    similarities,  \* the scores it computed, one per scored document
    ranking        \* the document indices it ranked (top_3_indices in /similarity)

vars ==
    <<env_key, hash_salt, rng, rng_on_entry, pc, req, resp, calls, sent, provider_failed,
      answered, dims, similarities, ranking>>

(***************************** bounds **************************************)
\* A query is a concatenation of at most MaxPieces pieces of Vocabulary.
MaxPieces == 2
\* A /similarity request carries at most MaxDocs documents.
MaxDocs == 4
\* Number of distinct string-hash salts a process can start with.
NumSalts == 2
\* The seed space: hash(...) % (2**32) of the source, narrowed.
SeedMod == 4

(***************************** texts ***************************************)
\* KNOWLEDGE_BASE[0]["content"]: "The fat arrow syntax is affectionately called the fat arrow ..."
Content0 ==
    <<
    "T","h","e"," ","f","a","t"," ","a","r","r","o","w"," ","s","y","n","t","a","x"," ","i","s",
    " ","a","f","f","e","c","t","i","o","n","a","t","e","l","y"," ","c","a","l","l","e","d"," ",
    "t","h","e"," ","f","a","t"," ","a","r","r","o","w"," ","(","b","e","c","a","u","s","e"," ",
    "-",">"," ","i","s"," ","a"," ","t","h","i","n"," ","a","r","r","o","w"," ","a","n","d"," ",
    "=",">"," ","i","s"," ","a"," ","f","a","t"," ","a","r","r","o","w",")","."," ","T","h","e",
    " ","f","a","t"," ","a","r","r","o","w"," ","i","s"," ","a","l","s","o"," ","c","a","l","l",
    "e","d"," ","a"," ","l","a","m","b","d","a"," ","f","u","n","c","t","i","o","n","." >>

\* KNOWLEDGE_BASE[1]["content"]: "The !! operator converts any value into an explicit boolean...."
Content1 ==
    <<
    "T","h","e"," ","!","!"," ","o","p","e","r","a","t","o","r"," ","c","o","n","v","e","r","t",
    "s"," ","a","n","y"," ","v","a","l","u","e"," ","i","n","t","o"," ","a","n"," ","e","x","p",
    "l","i","c","i","t"," ","b","o","o","l","e","a","n","."," ","T","h","e"," ","f","i","r","s",
    "t"," ","!"," ","c","o","n","v","e","r","t","s"," ","t","o"," ","b","o","o","l","e","a","n",
    " ","a","n","d"," ","i","n","v","e","r","t","s"," ","t","h","e"," ","l","o","g","i","c",",",
    " ","t","h","e"," ","s","e","c","o","n","d"," ","!"," ","i","n","v","e","r","t","s"," ","i",
    "t"," ","b","a","c","k","." >>

\* KNOWLEDGE_BASE[2]["content"]: "TypeScript has type inference which means you don't always n..."
Content2 ==
    <<
    "T","y","p","e","S","c","r","i","p","t"," ","h","a","s"," ","t","y","p","e"," ","i","n","f",
    "e","r","e","n","c","e"," ","w","h","i","c","h"," ","m","e","a","n","s"," ","y","o","u"," ",
    "d","o","n","'","t"," ","a","l","w","a","y","s"," ","n","e","e","d"," ","t","o"," ","a","n",
    "n","o","t","a","t","e"," ","t","y","p","e","s","."," ","T","h","e"," ","c","o","m","p","i",
    "l","e","r"," ","c","a","n"," ","i","n","f","e","r"," ","t","y","p","e","s"," ","f","r","o",
    "m"," ","u","s","a","g","e","." >>

\* KNOWLEDGE_BASE[3]["content"]: "Interfaces in TypeScript are used to define the structure of..."
Content3 ==
    <<
    "I","n","t","e","r","f","a","c","e","s"," ","i","n"," ","T","y","p","e","S","c","r","i","p",
    "t"," ","a","r","e"," ","u","s","e","d"," ","t","o"," ","d","e","f","i","n","e"," ","t","h",
    "e"," ","s","t","r","u","c","t","u","r","e"," ","o","f"," ","o","b","j","e","c","t","s",".",
    " ","T","h","e","y"," ","a","r","e"," ","a"," ","p","o","w","e","r","f","u","l"," ","w","a",
    "y"," ","o","f"," ","d","e","f","i","n","i","n","g"," ","c","o","n","t","r","a","c","t","s",
    " ","w","i","t","h","i","n"," ","y","o","u","r"," ","c","o","d","e","." >>

\* KNOWLEDGE_BASE[4]["content"]: "The any type is the super type of all types in TypeScript. U..."
Content4 ==
    <<
    "T","h","e"," ","a","n","y"," ","t","y","p","e"," ","i","s"," ","t","h","e"," ","s","u","p",
    "e","r"," ","t","y","p","e"," ","o","f"," ","a","l","l"," ","t","y","p","e","s"," ","i","n",
    " ","T","y","p","e","S","c","r","i","p","t","."," ","U","s","i","n","g"," ","a","n","y"," ",
    "e","f","f","e","c","t","i","v","e","l","y"," ","o","p","t","s"," ","o","u","t"," ","o","f",
    " ","t","y","p","e"," ","c","h","e","c","k","i","n","g","." >>

KW_ARROW == <<"=",">">>
KW_FAT_ARROW == <<"f","a","t"," ","a","r","r","o","w">>
KW_CALL == <<"c","a","l","l">>
KW_AFFECTIONATELY == <<"a","f","f","e","c","t","i","o","n","a","t","e","l","y">>
KW_SYNTAX == <<"s","y","n","t","a","x">>
KW_BANGBANG == <<"!","!">>
KW_BOOLEAN == <<"b","o","o","l","e","a","n">>
KW_CONVERT == <<"c","o","n","v","e","r","t">>
KW_EXPLICIT == <<"e","x","p","l","i","c","i","t">>
P_FatArrowCaps == <<"F","a","t"," ","A","r","r","o","w">>
P_SyntaxCaps == <<"S","y","n","t","a","x">>
P_BooleanCaps == <<"B","o","o","l","e","a","n">>
P_CallConvert == <<"c","a","l","l"," ","c","o","n","v","e","r","t">>
P_AffectionatelyExplicit ==
    <<"a","f","f","e","c","t","i","o","n","a","t","e","l","y"," ","e","x","p","l","i","c","i","t">>
ScenarioA ==
    <<
    "W","h","a","t"," ","d","o","e","s"," ","t","h","e"," ","a","u","t","h","o","r"," ","a","f",
    "f","e","c","t","i","o","n","a","t","e","l","y"," ","c","a","l","l"," ","t","h","e"," ","=",
    ">"," ","s","y","n","t","a","x","?" >>
ScenarioB ==
    <<
    "W","h","i","c","h"," ","o","p","e","r","a","t","o","r"," ","c","o","n","v","e","r","t","s",
    " ","a","n","y"," ","v","a","l","u","e"," ","i","n","t","o"," ","a","n"," ","e","x","p","l",
    "i","c","i","t"," ","b","o","o","l","e","a","n","?" >>
\* Two letters outside ASCII, each written as one element of a text: the
\* dotless i (U+0131) and the long s (U+017F). Both are lower-case letters:
\* str.lower() leaves them, str.upper() gives "I" and "S".
DotlessI == "U+0131"
LongS == "U+017F"

Alphabet ==
    <<
    " ","!","'","(",")",",","-",".","=",">","?","A","B","F","I","S","T","U","W","a","b","c","d",
    "e","f","g","h","i","j","k","l","m","n","o","p","r","s","t","u","v","w","x","y",
    "C","E","L","N","O","P","R","X","Y", DotlessI, LongS >>

CharSet == { Alphabet[i] : i \in 1..Len(Alphabet) }

\* The pieces queries are built from: the arrow and !! tokens, every rule keyword
\* (some capitalised, and paired so that each can decide a rule on its own), and
\* the two questions of src/test_rag_api.py.
Vocabulary ==
    { KW_ARROW, P_FatArrowCaps, KW_BANGBANG, P_SyntaxCaps, P_BooleanCaps,
      P_CallConvert, P_AffectionatelyExplicit, ScenarioA, ScenarioB }

RECURSIVE Concats(_)
Concats(n) ==
    IF n = 0 THEN { <<>> }
    ELSE Concats(n - 1) \cup { a \o b : a \in Concats(n - 1), b \in Vocabulary }

Queries == Concats(MaxPieces)

Uppers ==
    << "A","B","C","D","E","F","G","H","I","J","K","L","M",
       "N","O","P","Q","R","S","T","U","V","W","X","Y","Z" >>

Lowers ==
    << "a","b","c","d","e","f","g","h","i","j","k","l","m",
       "n","o","p","q","r","s","t","u","v","w","x","y","z" >>

\* str.lower() on one character.
LowerChar(c) ==
    IF \E i \in 1..Len(Uppers) : Uppers[i] = c
    THEN Lowers[CHOOSE i \in 1..Len(Uppers) : Uppers[i] = c]
    ELSE c

LowerOf == [c \in CharSet |-> LowerChar(c)]

\* str.upper() on one character.
UpperChar(c) ==
    IF \E i \in 1..Len(Lowers) : Lowers[i] = c
    THEN Uppers[CHOOSE i \in 1..Len(Lowers) : Lowers[i] = c]
    ELSE IF c = DotlessI THEN "I"
    ELSE IF c = LongS THEN "S"
    ELSE c

\* str.upper()
Upper(s) == [i \in 1..Len(s) |-> UpperChar(s[i])]

\* str.lower()
Lower(s) == [i \in 1..Len(s) |-> LowerOf[s[i]]]

\* Python's `sub in s` on strings.
Contains(sub, s) ==
    \E i \in 0..(Len(s) - Len(sub)) :
        \A j \in 1..Len(sub) : s[i + j] = sub[j]

Reverse(s) == [i \in 1..Len(s) |-> s[Len(s) + 1 - i]]

(************************ the knowledge base *******************************)
KNOWLEDGE_BASE ==
    << [content |-> Content0, source |-> "TypeScript Book - Arrow Functions"],
       [content |-> Content1, source |-> "TypeScript Book - Operators"],
       [content |-> Content2, source |-> "TypeScript Book - Type Inference"],
       [content |-> Content3, source |-> "TypeScript Book - Interfaces"],
       [content |-> Content4, source |-> "TypeScript Book - Types"] >>

(************************ embedding vectors ********************************)
\* Embeddings are modelled in two dimensions instead of 1536. Cosine similarity
\* does not depend on a vector's length, so a vector stands for its direction.
ZeroVec == <<0, 0>>
VecA == <<1, 0>>
VecB == <<1, 1>>
VecC == <<0, 1>>

\* What the remote provider may put in a response.
Vectors == { ZeroVec, VecA, VecB }

\* What the mock backend draws: random.uniform components, normalised, never zero.
MockVectors == << VecA, VecB, VecC >>

\* The sum of the products of the first n components.
RECURSIVE DotUpTo(_, _, _)
DotUpTo(v1, v2, n) == IF n = 0 THEN 0 ELSE DotUpTo(v1, v2, n - 1) + v1[n] * v2[n]

\* np.dot of two vectors of one length
Dot(v1, v2) == DotUpTo(v1, v2, Len(v1))

\* A score is the exact value sign(d) * d^2 / (|v1|^2 * |v2|^2), which orders
\* vectors as d / (|v1| * |v2|) does, or NaN.
NaN == [nan |-> TRUE, num |-> 0, den |-> 1]

RECURSIVE GCD(_, _)
GCD(a, b) == IF b = 0 THEN a ELSE GCD(b, a % b)

Abs(x) == IF x < 0 THEN -x ELSE x

\* The number n / d (d > 0), in lowest terms.
Num(n, d) ==
    LET g == GCD(Abs(n), d) IN [nan |-> FALSE, num |-> n \div g, den |-> d \div g]

Sign(x) == IF x < 0 THEN -1 ELSE IF x > 0 THEN 1 ELSE 0

\* Python's < on floats: every comparison with NaN is False.
FloatLt(a, b) == ~a.nan /\ ~b.nan /\ a.num * b.den < b.num * a.den

FloatEq(a, b) == ~a.nan /\ ~b.nan /\ a.num * b.den = b.num * a.den

\* np.dot of one-dimensional arrays of different lengths raises ValueError
\* ("shapes not aligned"): no number comes back.
ValueError == [nan |-> FALSE, num |-> 0, den |-> 0]

\* cosine_similarity written with zip: the products of the components both
\* vectors have, over the norms of the whole vectors.
cosine_similarity_CommonPrefix(vec1, vec2) ==
    LET d == DotUpTo(vec1, vec2, IF Len(vec1) < Len(vec2) THEN Len(vec1) ELSE Len(vec2))
        n == Dot(vec1, vec1) * Dot(vec2, vec2)
    IN  IF n = 0 THEN NaN ELSE Num(Sign(d) * d * d, n)

\* rag_api.cosine_similarity: np.dot(v1, v2) / (norm(v1) * norm(v2)); numpy
\* divides 0.0 by 0.0 to nan (a warning, no exception).
cosine_similarity(vec1, vec2) ==
    IF Len(vec1) # Len(vec2) THEN ValueError
    ELSE LET d == Dot(vec1, vec2)
             n == Dot(vec1, vec1) * Dot(vec2, vec2)
         IN  IF n = 0 THEN NaN ELSE Num(Sign(d) * d * d, n)

(************************ list.sort(reverse=True) **************************)
\* CPython's list.sort on a list shorter than 64: count_run finds the leading
\* run, binarysort inserts the rest; reverse=True reverses before and after.
\* keys[i] is the key of item i; idx is the list of items being sorted.
RECURSIVE RunEnd(_, _, _, _)
RunEnd(keys, idx, n, descending) ==
    IF n >= Len(idx) THEN n
    ELSE IF FloatLt(keys[idx[n + 1]], keys[idx[n]]) = descending
         THEN RunEnd(keys, idx, n + 1, descending)
         ELSE n

count_run(keys, idx) ==
    IF Len(idx) < 2 THEN [n |-> Len(idx), descending |-> FALSE]
    ELSE LET descending == FloatLt(keys[idx[2]], keys[idx[1]])
         IN  [n |-> RunEnd(keys, idx, 2, descending), descending |-> descending]

RECURSIVE BinaryPos(_, _, _, _, _)
BinaryPos(keys, idx, pivot, l, r) ==
    IF l >= r THEN l
    ELSE LET p == l + ((r - l) \div 2)
         IN  IF FloatLt(keys[pivot], keys[idx[p]])
             THEN BinaryPos(keys, idx, pivot, l, p)
             ELSE BinaryPos(keys, idx, pivot, p + 1, r)

RECURSIVE binarysort(_, _, _)
binarysort(keys, idx, start) ==
    IF start > Len(idx) THEN idx
    ELSE LET l == BinaryPos(keys, idx, idx[start], 1, start)
             moved == SubSeq(idx, 1, l - 1) \o << idx[start] >>
                      \o SubSeq(idx, l, start - 1) \o SubSeq(idx, start + 1, Len(idx))
         IN  binarysort(keys, moved, start + 1)

listsort(keys, idx) ==
    LET run == count_run(keys, idx)
        head == IF run.descending
                THEN Reverse(SubSeq(idx, 1, run.n)) \o SubSeq(idx, run.n + 1, Len(idx))
                ELSE idx
    IN  binarysort(keys, head, run.n + 1)

\* similarities.sort(key=lambda x: x[1], reverse=True): the item indices, sorted.
sort_reverse(keys) ==
    Reverse(listsort(keys, Reverse([i \in 1..Len(keys) |-> i])))

(************************ get_embeddings (rag_api) *************************)
CodeOf == [c \in CharSet |-> CHOOSE i \in 1..Len(Alphabet) : Alphabet[i] = c]

\* hash() of a string: a keyed hash of its characters, the key being the salt
\* the process drew at start; here a polynomial hash in the seed space, computed
\* by halving. PolyHash gives the hash h of s[lo..hi] from key 0 and the weight
\* p a key in front of it gets.
RECURSIVE PolyHash(_, _, _)
PolyHash(s, lo, hi) ==
    IF lo > hi THEN [h |-> 0, p |-> 1]
    ELSE IF lo = hi THEN [h |-> CodeOf[s[lo]] % SeedMod, p |-> 31 % SeedMod]
    ELSE LET mid == (lo + hi) \div 2
             l == PolyHash(s, lo, mid)
             r == PolyHash(s, mid + 1, hi)
         IN  [h |-> (l.h * r.p + r.h) % SeedMod, p |-> (l.p * r.p) % SeedMod]

HashFrom(key, s) ==
    LET x == PolyHash(s, 1, Len(s)) IN (key * x.p + x.h) % SeedMod

\* hash(str(texts)) % (2**32): str(texts) holds every text of the batch in order.
RECURSIVE HashTexts(_, _, _)
HashTexts(h, texts, k) ==
    IF k > Len(texts) THEN h
    ELSE HashTexts(HashFrom((h * 31 + 1) % SeedMod, texts[k]), texts, k + 1)

\* One embedding's worth of random.uniform draws advances the generator.
RngStep(x) == (5 * x + 3) % SeedMod

RECURSIVE RngAfter(_, _)
RngAfter(x, n) == IF n = 0 THEN x ELSE RngAfter(RngStep(x), n - 1)

\* The mock branch: random.seed(hash(str(texts)) % (2**32)), then one normalised
\* random vector per text, drawn in order from the generator.
mock_embeddings(texts, salt) ==
    LET seed == HashTexts(salt, texts, 1)
    IN  [i \in 1..Len(texts) |-> MockVectors[(RngAfter(seed, i - 1) % Len(MockVectors)) + 1]]

\* An outcome of one HTTP round trip to the provider: a failure (non-2xx or
\* transport error), or the vectors of result["data"].
Failure == [fail |-> TRUE, data |-> <<>>]

Outcomes(n) ==
    { Failure } \cup
    { [fail |-> FALSE, data |-> d] : d \in UNION { [1..m -> Vectors] : m \in 0..n } }

UsesMock(api_key) == api_key = "" \/ api_key = "dummy-api-key"

\* get_embeddings whose mock branch draws from the generator as it finds it,
\* without random.seed.
get_embeddings_NoReseed(texts, api_key, salt, r, out) ==
    IF UsesMock(api_key)
    THEN [raised |-> FALSE,
          embeddings |-> [i \in 1..Len(texts) |->
                             MockVectors[(RngAfter(r, i) % Len(MockVectors)) + 1]],
          sent |-> 0, rng |-> RngAfter(r, Len(texts))]
    ELSE IF out.fail
         THEN [raised |-> TRUE, embeddings |-> <<>>, sent |-> 1, rng |-> r]
         ELSE [raised |-> FALSE, embeddings |-> out.data, sent |-> 1, rng |-> r]

\* get_embeddings that draws from the process-wide generator (a request id)
\* before it asks the provider.
get_embeddings_DrawsFirst(texts, api_key, salt, r, out) ==
    IF UsesMock(api_key)
    THEN [raised |-> FALSE, embeddings |-> mock_embeddings(texts, salt), sent |-> 0,
          rng |-> RngAfter(HashTexts(salt, texts, 1), Len(texts))]
    ELSE IF out.fail
         THEN [raised |-> TRUE, embeddings |-> <<>>, sent |-> 1, rng |-> RngStep(r)]
         ELSE [raised |-> FALSE, embeddings |-> out.data, sent |-> 1, rng |-> RngStep(r)]

\* get_embeddings(texts, api_key); r is the generator's state on entry, out the
\* provider's outcome should the request be sent.
get_embeddings(texts, api_key, salt, r, out) ==
    IF UsesMock(api_key)
    THEN [raised |-> FALSE, embeddings |-> mock_embeddings(texts, salt), sent |-> 0,
          rng |-> RngAfter(HashTexts(salt, texts, 1), Len(texts))]
    ELSE IF out.fail
         THEN [raised |-> TRUE, embeddings |-> <<>>, sent |-> 1, rng |-> r]
         ELSE [raised |-> FALSE, embeddings |-> out.data, sent |-> 1, rng |-> r]

(************************ /search (rag_api) ********************************)
Unset == "(unset)"

\* os.getenv(name, default)
getenv(value, default) == IF value = Unset THEN default ELSE value

NoResponse ==
    [status |-> 0, answer |-> <<>>, sources |-> "", matches |-> <<>>, detail |-> "",
     name |-> "", arguments |-> <<>>]

SearchResponse_FirstSource(best_match) ==
    [status |-> 200, answer |-> best_match.content, sources |-> KNOWLEDGE_BASE[1].source,
     matches |-> <<>>, detail |-> "", name |-> "", arguments |-> <<>>]

\* SearchResponse(answer=best_match["content"], sources=best_match["source"])
SearchResponse(best_match) ==
    [status |-> 200, answer |-> best_match.content, sources |-> best_match.source,
     matches |-> <<>>, detail |-> "", name |-> "", arguments |-> <<>>]

\* raise HTTPException(status_code, detail)
HTTPException(status_code, detail) ==
    [status |-> status_code, answer |-> <<>>, sources |-> "", matches |-> <<>>,
     detail |-> detail, name |-> "", arguments |-> <<>>]

\* An exception no handler catches: the framework answers 500.
ServerError == HTTPException(500, "Internal Server Error")

\* The conditions of the if / elif chain; query_lower is q.lower().
ArrowToken(q, query_lower) ==
    Contains(KW_ARROW, q) \/ Contains(KW_FAT_ARROW, query_lower)

Discriminator(query_lower) ==
    \/ Contains(KW_CALL, query_lower)
    \/ Contains(KW_AFFECTIONATELY, query_lower)
    \/ Contains(KW_SYNTAX, query_lower)

\* BangPredicate without its "explicit" alternative.
BangPredicate_NoExplicit(q, query_lower) ==
    \/ Contains(KW_BANGBANG, q)
    \/ (Contains(KW_BOOLEAN, query_lower) /\ Contains(KW_CONVERT, query_lower))

BangPredicate(q, query_lower) ==
    \/ Contains(KW_BANGBANG, q)
    \/ (Contains(KW_BOOLEAN, query_lower)
        /\ (Contains(KW_CONVERT, query_lower) \/ Contains(KW_EXPLICIT, query_lower)))

\* RuleBranch with the !! condition tested before the arrow conditions.
RuleBranch_BangFirst(q) ==
    LET query_lower == Lower(q)
    IN  IF BangPredicate(q, query_lower) THEN 2
        ELSE IF ArrowToken(q, query_lower) /\ Discriminator(query_lower) THEN 1
        ELSE IF ArrowToken(q, query_lower) THEN 3
        ELSE 0

\* RuleBranch with the bare arrow condition tested before the !! condition.
RuleBranch_ArrowFirst(q) ==
    LET query_lower == Lower(q)
    IN  IF ArrowToken(q, query_lower) /\ Discriminator(query_lower) THEN 1
        ELSE IF ArrowToken(q, query_lower) THEN 3
        ELSE IF BangPredicate(q, query_lower) THEN 2
        ELSE 0

\* The if / elif chain of search: the branch taken, 0 for the else branch.
RuleBranch(q) ==
    LET query_lower == Lower(q)
    IN  IF ArrowToken(q, query_lower) /\ Discriminator(query_lower) THEN 1
        ELSE IF BangPredicate(q, query_lower) THEN 2
        ELSE IF ArrowToken(q, query_lower) THEN 3
        ELSE 0

\* The document a rule branch is bound to (an index of KNOWLEDGE_BASE).
RuleDocument(branch) == IF branch = 2 THEN 2 ELSE 1

Contents == [i \in 1..Len(KNOWLEDGE_BASE) |-> KNOWLEDGE_BASE[i].content]

Trace(response, batches, nsent, scores, order, r) ==
    [resp |-> response, calls |-> batches, sent |-> nsent, similarities |-> scores,
     ranking |-> order, rng |-> r]

\* The else branch of search: embed, score, sort, take the first. The one call
\* of get_embeddings is handed every text of all_texts, named by its position.
embedding_search(q, api_key, salt, r, out) ==
    LET all_texts == << q >> \o Contents
        batch == [i \in 1..Len(all_texts) |-> i]
        got == get_embeddings(all_texts, api_key, salt, r, out)
        embeddings == got.embeddings
    IN  IF got.raised \/ Len(embeddings) = 0
        THEN Trace(ServerError, << batch >>, got.sent, <<>>, <<>>, got.rng)
        ELSE LET query_embedding == embeddings[1]
                 doc_embeddings == Tail(embeddings)
                 scores == [i \in 1..Len(doc_embeddings) |->
                               cosine_similarity(query_embedding, doc_embeddings[i])]
                 raising == { i \in 1..Len(scores) : scores[i] = ValueError }
                 order == sort_reverse(scores)
             IN  IF raising # {}
                 THEN \* the loop stops at the first pair np.dot refuses
                      LET first == CHOOSE i \in raising : \A j \in raising : i <= j
                      IN  Trace(ServerError, << batch >>, got.sent,
                                SubSeq(scores, 1, first - 1), <<>>, got.rng)
                 ELSE IF Len(order) = 0
                 THEN Trace(ServerError, << batch >>, got.sent, scores, order, got.rng)
                 ELSE Trace(SearchResponse(KNOWLEDGE_BASE[order[1]]), << batch >>,
                            got.sent, scores, order, got.rng)

\* search_dispatch with the embeddings fetched before the rules are consulted.
search_dispatch_EmbedsFirst(branch, q, key, salt, r, out) ==
    LET api_key == getenv(key, "dummy-api-key")
        ranked == embedding_search(q, api_key, salt, r, out)
    IN  IF branch # 0
        THEN Trace(SearchResponse(KNOWLEDGE_BASE[RuleDocument(branch)]),
                   ranked.calls, ranked.sent, <<>>, <<>>, ranked.rng)
        ELSE ranked

\* The body of search once the rule conditions have been evaluated to branch.
search_dispatch(branch, q, key, salt, r, out) ==
    LET api_key == getenv(key, "dummy-api-key")
    IN  IF branch # 0
        THEN Trace(SearchResponse(KNOWLEDGE_BASE[RuleDocument(branch)]),
                   <<>>, 0, <<>>, <<>>, r)
        ELSE embedding_search(q, api_key, salt, r, out)

\* search(q): the whole handler.
search(q, key, salt, r, out) == search_dispatch(RuleBranch(q), q, key, salt, r, out)

\* The outcomes the provider can give to the request search makes, if it makes one.
SearchOutcomes == Outcomes(1 + Len(KNOWLEDGE_BASE))

(************************ /similarity (similarity_api) *********************)
\* Documents of /similarity requests: lists of distinct texts, and lists that
\* repeat one text.
Digits == << "0","1","2","3","4","5","6","7","8","9" >>

DocText(i) == << "d", Digits[i + 1] >>

DocLists ==
    { [i \in 1..n |-> DocText(IF same THEN 1 ELSE i)] : n \in 0..MaxDocs, same \in BOOLEAN }

SimilarityQueries == { <<>>, <<"q">> }

\* What the provider does with the successive requests of one /similarity call:
\* it answers the first Len(d) of them with the vectors d, and fails the next.
SimilarityOutcomes(ncalls) == UNION { [1..k -> Vectors] : k \in 0..ncalls }

\* sklearn's cosine_similarity normalises each row, leaving a zero row as it is,
\* and multiplies: a zero vector scores 0 against everything.
sklearn_cosine_similarity(vec1, vec2) ==
    LET d == Dot(vec1, vec2)
        n == Dot(vec1, vec1) * Dot(vec2, vec2)
    IN  IF n = 0 THEN Num(0, 1) ELSE Num(Sign(d) * d * d, n)

\* np.argsort(a): the permutations that put a in ascending order. The default
\* kind is not stable, so the order among equal elements is any.
argsort(a) ==
    { p \in Permutations(1..Len(a)) :
        \A i \in 1..(Len(a) - 1) : ~FloatLt(a[p[i + 1]], a[p[i]]) }

\* s[-3:]
LastThree(s) == SubSeq(s, IF Len(s) > 3 THEN Len(s) - 2 ELSE 1, Len(s))

\* top_3_indices without the final [::-1].
top_3_indices_NotReversed(scores) == { LastThree(p) : p \in argsort(scores) }

\* The values top_3_indices can take: np.argsort(similarities)[-3:][::-1]
top_3_indices(scores) == { Reverse(LastThree(p)) : p \in argsort(scores) }

SimilarityResponse(top_matches) ==
    [status |-> 200, answer |-> <<>>, sources |-> "", matches |-> top_matches,
     detail |-> "", name |-> "", arguments |-> <<>>]

KeyMissing ==
    "OpenAI API key is missing or invalid. Please set the OPENAI_API_KEY environment variable."

\* get_embedding(text): does the call raise before asking the provider?
\* os.environ.get gives None for an unset variable; None and "" are both falsy.
get_embedding_refuses(key) == key = Unset \/ key = ""

\* str(e) of an HTTPException: the status code, then the detail.
str_HTTPException(e) == << ToString(e.status), ": ", e.detail >>

\* "OPENAI_API_KEY" in text: of the texts an exception of this handler carries,
\* KeyMissing is the one that names the variable.
NamesApiKey(text) == \E i \in 1..Len(text) : text[i] = KeyMissing

except_Exception_Always500(e) == HTTPException(500, e.detail)

\* The except Exception clause of get_similarity on an HTTPException raised in
\* the try block: 401 when str(e) names the variable, 500 otherwise.
except_Exception(e) ==
    IF NamesApiKey(str_HTTPException(e))
    THEN HTTPException(401, KeyMissing)
    ELSE HTTPException(500, e.detail)

\* get_similarity whose guard tests the query only.
get_similarity_QueryOnly(docs, query, key, r, d, top) ==
    LET texts == docs \o << query >>
        batches == [i \in 1..Len(texts) |-> << i >>]
    IN  IF Len(query) = 0
        THEN Trace(HTTPException(400, "Docs and query cannot be empty."),
                   <<>>, 0, <<>>, <<>>, r)
        ELSE IF get_embedding_refuses(key)
        THEN Trace(HTTPException(401, KeyMissing), SubSeq(batches, 1, 1), 0, <<>>, <<>>, r)
        ELSE Trace(HTTPException(500, "provider error"),
                   SubSeq(batches, 1, Len(d) + 1), Len(d) + 1, <<>>, <<>>, r)

\* get_similarity that, when a get_embedding call fails, answers with the
\* documents embedded so far.
get_similarity_PartialOnFailure(docs, query, key, r, d, top) ==
    LET texts == docs \o << query >>
        batches == [i \in 1..Len(texts) |-> << i >>]
    IN  IF Len(docs) = 0 \/ Len(query) = 0
        THEN Trace(HTTPException(400, "Docs and query cannot be empty."),
                   <<>>, 0, <<>>, <<>>, r)
        ELSE IF get_embedding_refuses(key)
        THEN Trace(HTTPException(401, KeyMissing), SubSeq(batches, 1, 1), 0, <<>>, <<>>, r)
        ELSE IF Len(d) < Len(texts)
        THEN Trace(SimilarityResponse(SubSeq(docs, 1, IF Len(d) > 3 THEN 3 ELSE Len(d))),
                   SubSeq(batches, 1, Len(d) + 1), Len(d) + 1, <<>>, <<>>, r)
        ELSE Trace(SimilarityResponse([i \in 1..Len(top) |-> docs[top[i]]]),
                   batches, Len(texts),
                   [i \in 1..Len(docs) |-> sklearn_cosine_similarity(d[Len(texts)], d[i])],
                   top, r)

\* get_similarity that asks the provider a second time for the text whose
\* get_embedding call failed.
get_similarity_RetriesOnce(docs, query, key, r, d, top) ==
    LET texts == docs \o << query >>
        batches == [i \in 1..Len(texts) |-> << i >>]
    IN  IF Len(docs) = 0 \/ Len(query) = 0
        THEN Trace(HTTPException(400, "Docs and query cannot be empty."),
                   <<>>, 0, <<>>, <<>>, r)
        ELSE IF get_embedding_refuses(key)
        THEN Trace(HTTPException(401, KeyMissing), SubSeq(batches, 1, 1), 0, <<>>, <<>>, r)
        ELSE IF Len(d) < Len(texts)
        THEN Trace(HTTPException(500, "provider error"),
                   SubSeq(batches, 1, Len(d) + 1) \o << batches[Len(d) + 1] >>,
                   Len(d) + 2, <<>>, <<>>, r)
        ELSE Trace(SimilarityResponse([i \in 1..Len(top) |-> docs[top[i]]]),
                   batches, Len(texts),
                   [i \in 1..Len(docs) |-> sklearn_cosine_similarity(d[Len(texts)], d[i])],
                   top, r)

\* get_similarity(request) with top_3_indices already chosen as top; d holds the
\* provider's answers to the successive get_embedding calls. The texts embedded
\* are the documents, then the query; call i is handed text i.
get_similarity(docs, query, key, r, d, top) ==
    LET texts == docs \o << query >>
        batches == [i \in 1..Len(texts) |-> << i >>]
    IN  IF Len(docs) = 0 \/ Len(query) = 0
        THEN Trace(HTTPException(400, "Docs and query cannot be empty."),
                   <<>>, 0, <<>>, <<>>, r)
        ELSE IF get_embedding_refuses(key)
        THEN \* the first get_embedding raises 401; str(e) names OPENAI_API_KEY
             Trace(except_Exception(HTTPException(401, KeyMissing)),
                   SubSeq(batches, 1, 1), 0, <<>>, <<>>, r)
        ELSE IF Len(d) < Len(texts)
        THEN \* call Len(d) + 1 raised: except Exception answers 500
             Trace(HTTPException(500, "provider error"),
                   SubSeq(batches, 1, Len(d) + 1), Len(d) + 1, <<>>, <<>>, r)
        ELSE IF \E i \in 1..Len(docs) : Len(d[i]) # Len(d[Len(texts)])
        THEN \* sklearn's check of the two matrices raises ValueError: 500
             Trace(HTTPException(500, "incompatible dimension"),
                   batches, Len(texts), <<>>, <<>>, r)
        ELSE LET doc_embeddings == SubSeq(d, 1, Len(docs))
                 query_embedding == d[Len(texts)]
                 scores == [i \in 1..Len(docs) |->
                               sklearn_cosine_similarity(query_embedding, doc_embeddings[i])]
                 top_matches == [i \in 1..Len(top) |-> docs[top[i]]]
             IN  Trace(SimilarityResponse(top_matches), batches, Len(texts), scores, top, r)

\* The scores get_similarity computes from the provider's answers d.
similarity_scores(docs, d) ==
    [i \in 1..Len(docs) |-> sklearn_cosine_similarity(d[Len(docs) + 1], d[i])]

(************************ /execute (function_caller_api) *******************)
\* The literals of the five patterns, the keys of the arguments, and slot values.
L_Ticket ==
    << "W", "h", "a", "t", " ", "i", "s", " ", "t", "h", "e", " ", "s", "t", "a", "t", "u",
       "s", " ", "o", "f", " ", "t", "i", "c", "k", "e", "t", " " >>

L_Question ==
    << "?" >>

L_Meeting ==
    << "S", "c", "h", "e", "d", "u", "l", "e", " ", "a", " ", "m", "e", "e", "t", "i", "n",
       "g", " ", "o", "n", " " >>

L_At ==
    << " ", "a", "t", " " >>

L_In ==
    << " ", "i", "n", " " >>

L_Room ==
    << "R", "o", "o", "m", " " >>

L_Stop ==
    << "." >>

L_Expense ==
    << "S", "h", "o", "w", " ", "m", "y", " ", "e", "x", "p", "e", "n", "s", "e", " ", "b",
       "a", "l", "a", "n", "c", "e", " ", "f", "o", "r", " ", "e", "m", "p", "l", "o", "y",
       "e", "e", " " >>

L_Bonus ==
    << "C", "a", "l", "c", "u", "l", "a", "t", "e", " ", "p", "e", "r", "f", "o", "r", "m",
       "a", "n", "c", "e", " ", "b", "o", "n", "u", "s", " ", "f", "o", "r", " ", "e", "m",
       "p", "l", "o", "y", "e", "e", " " >>

L_For ==
    << " ", "f", "o", "r", " " >>

L_Issue ==
    << "R", "e", "p", "o", "r", "t", " ", "o", "f", "f", "i", "c", "e", " ", "i", "s", "s",
       "u", "e", " " >>

L_ForThe ==
    << " ", "f", "o", "r", " ", "t", "h", "e", " " >>

L_Department ==
    << " ", "d", "e", "p", "a", "r", "t", "m", "e", "n", "t" >>

K_ticket_id ==
    << "t", "i", "c", "k", "e", "t", "_", "i", "d" >>

K_date ==
    << "d", "a", "t", "e" >>

K_time ==
    << "t", "i", "m", "e" >>

K_meeting_room ==
    << "m", "e", "e", "t", "i", "n", "g", "_", "r", "o", "o", "m" >>

K_employee_id ==
    << "e", "m", "p", "l", "o", "y", "e", "e", "_", "i", "d" >>

K_current_year ==
    << "c", "u", "r", "r", "e", "n", "t", "_", "y", "e", "a", "r" >>

K_issue_code ==
    << "i", "s", "s", "u", "e", "_", "c", "o", "d", "e" >>

K_department ==
    << "d", "e", "p", "a", "r", "t", "m", "e", "n", "t" >>

N_482 ==
    << "4", "8", "2" >>

N_007 ==
    << "0", "0", "7" >>

N_2025 ==
    << "2", "0", "2", "5" >>

S_Date ==
    << "2", "0", "2", "5", "-", "0", "2", "-", "1", "5" >>

S_Time ==
    << "1", "4", ":", "0", "0" >>

S_RoomA ==
    << "R", "o", "o", "m", " ", "A" >>

S_IT ==
    << "I", "T" >>

S_TwoLines ==
    << "H", "u", "m", "a", "n", "\n", "R", "e", "s", "o", "u", "r", "c", "e", "s" >>

S_ITDept ==
    << "I", "T", " ", "d", "e", "p", "a", "r", "t", "m", "e", "n", "t" >>

\* The character classes of the patterns, on the characters of the model:
\* \d, \w and \s.
DigitChars == { Digits[i] : i \in 1..Len(Digits) }

WordChars ==
    DigitChars \cup { Uppers[i] : i \in 1..Len(Uppers) }
               \cup { Lowers[i] : i \in 1..Len(Lowers) } \cup { "_" }

SpaceChars == { " ", "\n", "\t" }

\* A pattern is a sequence of elements: a literal, a class repeated one or more
\* times (greedy), or the boundary of a capturing group.
Lit(t) == [kind |-> "lit", text |-> t, class |-> {}]

Plus(C) == [kind |-> "plus", text |-> <<>>, class |-> C]

Mark == [kind |-> "mark", text |-> <<>>, class |-> {}]

TicketPattern ==
    << Lit(L_Ticket), Mark, Plus(DigitChars), Mark, Lit(L_Question) >>

MeetingPattern ==
    << Lit(L_Meeting), Mark, Plus(DigitChars \cup {"-"}), Mark, Lit(L_At),
       Mark, Plus(DigitChars \cup {":"}), Mark, Lit(L_In),
       Mark, Lit(L_Room), Plus(WordChars), Mark, Lit(L_Stop) >>

ExpensePattern_AnySentenceInS ==
    << Lit(<< "S" >>), Plus((WordChars \ DigitChars) \cup { " " }), Mark, Plus(DigitChars),
       Mark >>

ExpensePattern ==
    << Lit(L_Expense), Mark, Plus(DigitChars), Mark, Lit(L_Stop) >>

BonusPattern ==
    << Lit(L_Bonus), Mark, Plus(DigitChars), Mark, Lit(L_For),
       Mark, Plus(DigitChars), Mark, Lit(L_Stop) >>

IssuePattern ==
    << Lit(L_Issue), Mark, Plus(DigitChars), Mark, Lit(L_ForThe),
       Mark, Plus(WordChars \cup SpaceChars), Mark, Lit(L_Department), Lit(L_Stop) >>

SetMin(S) == CHOOSE x \in S : \A y \in S : x <= y

SetMax(S) == CHOOSE x \in S : \A y \in S : x >= y

\* Does lit stand in s at position pos?
StartsWithAt(s, pos, lit) ==
    /\ pos + Len(lit) - 1 <= Len(s)
    /\ \A j \in 1..Len(lit) : s[pos + j - 1] = lit[j]

\* The last position of the run of class characters that starts at pos
\* (pos - 1 if there is none).
ClassRunEnd(s, pos, C) ==
    LET stops == { i \in pos..Len(s) : s[i] \notin C }
    IN  IF stops = {} THEN Len(s) ELSE SetMin(stops) - 1

NoMatch == [ok |-> FALSE, marks |-> <<>>, end |-> 0]

\* The regular-expression engine on these patterns: match elements k.. of pat
\* against s from pos; a repetition takes as many characters as leave the rest
\* of the pattern matching. marks are the positions of the group boundaries, end
\* the position after the match.
RECURSIVE MatchFrom(_, _, _, _)
MatchFrom(pat, k, s, pos) ==
    IF k > Len(pat) THEN [ok |-> TRUE, marks |-> <<>>, end |-> pos]
    ELSE LET e == pat[k]
         IN  CASE e.kind = "lit" ->
                    IF StartsWithAt(s, pos, e.text)
                    THEN MatchFrom(pat, k + 1, s, pos + Len(e.text))
                    ELSE NoMatch
               [] e.kind = "mark" ->
                    LET r == MatchFrom(pat, k + 1, s, pos)
                    IN  IF r.ok THEN [r EXCEPT !.marks = << pos >> \o r.marks] ELSE NoMatch
               [] e.kind = "plus" ->
                    LET last == ClassRunEnd(s, pos, e.class)
                        good == { n \in pos..last : MatchFrom(pat, k + 1, s, n + 1).ok }
                    IN  IF good = {} THEN NoMatch
                        ELSE MatchFrom(pat, k + 1, s, SetMax(good) + 1)

\* re.match(pattern, q): a match at the start of q; what follows it is free.
re_match(pat, q) == MatchFrom(pat, 1, q, 1)

\* match.group(i)
group(q, m, i) == SubSeq(q, m.marks[2 * i - 1], m.marks[2 * i] - 1)

\* CPython refuses to convert a decimal string of more digits than this.
INT_MAX_STR_DIGITS == 4300

DigitValue(c) == (CHOOSE i \in 1..Len(Digits) : Digits[i] = c) - 1

RECURSIVE DecimalValue(_)
DecimalValue(t) ==
    IF Len(t) = 0 THEN 0
    ELSE DecimalValue(SubSeq(t, 1, Len(t) - 1)) * 10 + DigitValue(t[Len(t)])

\* int(text) on a string of digits: the number, or ValueError.
int(t) ==
    IF Len(t) > INT_MAX_STR_DIGITS
    THEN [raised |-> TRUE, value |-> 0]
    ELSE [raised |-> FALSE, value |-> DecimalValue(t)]

\* json.dumps of an int.
RECURSIVE JsonInt(_)
JsonInt(n) ==
    IF n < 10 THEN << Digits[n + 1] >>
    ELSE JsonInt(n \div 10) \o << Digits[(n % 10) + 1] >>

JsonEscape(c) ==
    CASE c = "\n" -> << "\\", "n" >>
      [] c = "\t" -> << "\\", "t" >>
      [] c = "\"" -> << "\\", "\"" >>
      [] c = "\\" -> << "\\", "\\" >>
      [] OTHER -> << c >>

RECURSIVE JsonEscaped(_)
JsonEscaped(t) ==
    IF Len(t) = 0 THEN <<>> ELSE JsonEscape(Head(t)) \o JsonEscaped(Tail(t))

\* json.dumps of a str.
JsonString(t) == << "\"" >> \o JsonEscaped(t) \o << "\"" >>

Member(k, v) == [key |-> k, value |-> v]

RECURSIVE JsonMembers(_, _)
JsonMembers(members, k) ==
    IF k > Len(members) THEN <<>>
    ELSE (IF k = 1 THEN <<>> ELSE << ",", " " >>)
         \o JsonString(members[k].key) \o << ":", " " >> \o members[k].value
         \o JsonMembers(members, k + 1)

\* json.dumps of a dict whose values are already encoded.
json_dumps(members) == << "{" >> \o JsonMembers(members, 1) \o << "}" >>

FunctionCallResponse(fname, args) ==
    [status |-> 200, answer |-> <<>>, sources |-> "", matches |-> <<>>, detail |-> "",
     name |-> fname, arguments |-> args]

NoPattern == HTTPException(400, "Query did not match any known function pattern.")

\* execute_function_call(q): the five patterns in turn; an int() that raises is
\* caught by nobody.
execute_function_call(q) ==
    LET ticket_match == re_match(TicketPattern, q)
        meeting_match == re_match(MeetingPattern, q)
        expense_match == re_match(ExpensePattern, q)
        bonus_match == re_match(BonusPattern, q)
        issue_match == re_match(IssuePattern, q)
    IN  IF ticket_match.ok
        THEN LET ticket_id == int(group(q, ticket_match, 1))
             IN  IF ticket_id.raised THEN ServerError
                 ELSE FunctionCallResponse("get_ticket_status",
                          json_dumps(<< Member(K_ticket_id, JsonInt(ticket_id.value)) >>))
        ELSE IF meeting_match.ok
        THEN FunctionCallResponse("schedule_meeting",
                 json_dumps(<< Member(K_date, JsonString(group(q, meeting_match, 1))),
                               Member(K_time, JsonString(group(q, meeting_match, 2))),
                               Member(K_meeting_room,
                                      JsonString(group(q, meeting_match, 3))) >>))
        ELSE IF expense_match.ok
        THEN LET employee_id == int(group(q, expense_match, 1))
             IN  IF employee_id.raised THEN ServerError
                 ELSE FunctionCallResponse("get_expense_balance",
                          json_dumps(<< Member(K_employee_id, JsonInt(employee_id.value)) >>))
        ELSE IF bonus_match.ok
        THEN LET employee_id == int(group(q, bonus_match, 1))
                 current_year == int(group(q, bonus_match, 2))
             IN  IF employee_id.raised \/ current_year.raised THEN ServerError
                 ELSE FunctionCallResponse("calculate_performance_bonus",
                          json_dumps(<< Member(K_employee_id, JsonInt(employee_id.value)),
                                        Member(K_current_year,
                                               JsonInt(current_year.value)) >>))
        ELSE IF issue_match.ok
        THEN LET issue_code == int(group(q, issue_match, 1))
                 department == group(q, issue_match, 2)
             IN  IF issue_code.raised THEN ServerError
                 ELSE FunctionCallResponse("report_office_issue",
                          json_dumps(<< Member(K_issue_code, JsonInt(issue_code.value)),
                                        Member(K_department, JsonString(department)) >>))
        ELSE NoPattern

\* The queries of /execute requests: the sentences of the five templates over a
\* few slot values, the same with a character behind or a space in front, and
\* sentences that miss a template.
LongNumber == [i \in 1..(INT_MAX_STR_DIGITS + 1) |-> "1"]

NumberTexts == { N_482, N_007, LongNumber }

TicketQuery(n) == L_Ticket \o n \o L_Question

MeetingQuery(date, time, room) ==
    L_Meeting \o date \o L_At \o time \o L_In \o room \o L_Stop

ExpenseQuery(n) == L_Expense \o n \o L_Stop

BonusQuery(n, year) == L_Bonus \o n \o L_For \o year \o L_Stop

IssueQuery(code, department) ==
    L_Issue \o code \o L_ForThe \o department \o L_Department \o L_Stop

MeetingSlots == { << S_Date, S_Time, S_RoomA >> }

BonusSlots == { << N_482, N_2025 >>, << N_007, N_2025 >>, << N_482, LongNumber >> }

IssueSlots ==
    ({ N_482, N_007 } \X { S_IT, S_TwoLines, S_ITDept }) \cup { << LongNumber, S_IT >> }

Instances ==
    { TicketQuery(n) : n \in NumberTexts }
        \cup { MeetingQuery(s[1], s[2], s[3]) : s \in MeetingSlots }
        \cup { ExpenseQuery(n) : n \in NumberTexts }
        \cup { BonusQuery(s[1], s[2]) : s \in BonusSlots }
        \cup { IssueQuery(s[1], s[2]) : s \in IssueSlots }

Misses ==
    { <<>>, ScenarioA, TicketQuery(<<>>), TicketQuery(<< "4", "x" >>), L_Ticket \o N_482,
      MeetingQuery(S_Date, S_Time, << "A" >>), ExpenseQuery(<< "-", "1" >>),
      BonusQuery(N_482, <<>>), IssueQuery(N_482, <<>>) }

ExecuteQueries ==
    Instances \cup { q \o << "x" >> : q \in Instances }
              \cup { << " " >> \o q : q \in Instances } \cup Misses

(************************ the server ***************************************)
EnvKeys == { Unset, "", "sk-live" }

Salts == 0..(NumSalts - 1)

NoRequest == [endpoint |-> "none", q |-> <<>>, docs |-> <<>>]

Init ==
    /\ env_key \in EnvKeys
    /\ hash_salt \in Salts
    /\ rng = -1
    /\ rng_on_entry = -1
    /\ pc = "idle"
    /\ req = NoRequest
    /\ resp = NoResponse
    /\ calls = <<>>
    /\ sent = 0
    /\ provider_failed = FALSE
    /\ answered = 0
    /\ dims = <<>>
    /\ similarities = <<>>
    /\ ranking = <<>>

Finish(t) ==
    /\ resp' = t.resp
    /\ calls' = t.calls
    /\ sent' = t.sent
    /\ similarities' = t.similarities
    /\ ranking' = t.ranking
    /\ rng' = t.rng
    /\ rng_on_entry' = rng
    /\ pc' = "done"
    /\ UNCHANGED <<env_key, hash_salt>>

\* The dimensions of a list of vectors.
Dimensions(vs) == [i \in 1..Len(vs) |-> Len(vs[i])]

\* GET /search?q=... with q among queries and the provider's outcome, drawn
\* only where search asks the provider, among outcomes.
SearchFrom(queries, outcomes) ==
    /\ pc = "idle"
    /\ \E q \in queries :
          LET branch == RuleBranch(q)
              asks == branch = 0 /\ ~UsesMock(getenv(env_key, "dummy-api-key"))
          IN  /\ req' = [endpoint |-> "search", q |-> q, docs |-> <<>>]
              /\ \E out \in (IF asks THEN outcomes ELSE { Failure }) :
                    /\ provider_failed' = (asks /\ out.fail)
                    /\ answered' = (IF asks /\ ~out.fail THEN 1 ELSE 0)
                    /\ dims' = (IF asks THEN Dimensions(out.data) ELSE <<>>)
                    /\ Finish(search_dispatch(branch, q, env_key, hash_salt, rng, out))

SearchRequest == SearchFrom(Queries, SearchOutcomes)

\* sklearn's cosine_similarity takes the query and the documents as two matrices
\* of one width.
SameWidth(d) == \A i \in 1..Len(d) : Len(d[i]) = Len(d[Len(d)])

\* POST /similarity with the provider's answers among answers(number of calls).
\* The provider is asked only where get_similarity asks it, and top_3_indices
\* is chosen only where it is computed.
SimilarityFrom(answers(_)) ==
    /\ pc = "idle"
    /\ \E docs \in DocLists, query \in SimilarityQueries :
          LET asks == Len(docs) # 0 /\ Len(query) # 0 /\ ~get_embedding_refuses(env_key)
          IN  /\ req' = [endpoint |-> "similarity", q |-> query, docs |-> docs]
              /\ \E d \in (IF asks THEN answers(Len(docs) + 1) ELSE { <<>> }) :
                    \E top \in (IF asks /\ Len(d) = Len(docs) + 1 /\ SameWidth(d)
                                 THEN top_3_indices(similarity_scores(docs, d))
                                 ELSE { <<>> }) :
                        /\ provider_failed' = (asks /\ Len(d) < Len(docs) + 1)
                        /\ answered' = Len(d)
                        /\ dims' = Dimensions(d)
                        /\ Finish(get_similarity(docs, query, env_key, rng, d, top))

SimilarityRequest == SimilarityFrom(SimilarityOutcomes)

\* GET /execute?q=...   The handler reads and writes nothing but its arguments.
ExecuteRequest ==
    /\ pc = "idle"
    /\ \E q \in ExecuteQueries :
          /\ req' = [endpoint |-> "execute", q |-> q, docs |-> <<>>]
          /\ provider_failed' = FALSE
          /\ answered' = 0
          /\ dims' = <<>>
          /\ Finish(Trace(execute_function_call(q), <<>>, 0, <<>>, <<>>, rng))

\* The response has been delivered; the handler's locals are gone.
Respond ==
    /\ pc = "done"
    /\ pc' = "idle"
    /\ req' = NoRequest
    /\ resp' = NoResponse
    /\ calls' = <<>>
    /\ sent' = 0
    /\ provider_failed' = FALSE
    /\ answered' = 0
    /\ dims' = <<>>
    /\ similarities' = <<>>
    /\ ranking' = <<>>
    /\ rng_on_entry' = -1
    /\ UNCHANGED <<env_key, hash_salt, rng>>

\* The process is restarted: a new hash salt, a freshly seeded generator.
Restart ==
    /\ pc = "idle"
    /\ hash_salt' \in Salts
    /\ rng' = -1
    /\ UNCHANGED <<env_key, rng_on_entry, pc, req, resp, calls, sent, provider_failed, answered,
                   dims, similarities, ranking>>

Next ==
    \/ SearchRequest
    \/ SimilarityRequest
    \/ ExecuteRequest
    \/ Respond
    \/ Restart

Spec == Init /\ [][Next]_vars

(************************ /search, step by step ****************************)
\* The handler of /search followed through its phases. pc is "RuleDispatch"
\* while the if / elif chain is evaluated, "EmbeddingRank" in the else branch,
\* "Resolved" when a SearchResponse is returned and "Failed" when an exception
\* leaves the handler.
PhasePieces == 1

\* The queries followed step by step.
PhaseQueries == Concats(PhasePieces)

Receive ==
    /\ pc = "idle"
    /\ \E q \in PhaseQueries : req' = [endpoint |-> "search", q |-> q, docs |-> <<>>]
    /\ pc' = "RuleDispatch"
    /\ rng_on_entry' = rng
    /\ UNCHANGED <<env_key, hash_salt, rng, resp, calls, sent, provider_failed, answered,
                   dims, similarities, ranking>>

\* Dispatch with the else branch taken whatever the rules say.
Dispatch_AlwaysRanks ==
    /\ pc = "RuleDispatch"
    /\ pc' = "EmbeddingRank"
    /\ UNCHANGED <<env_key, hash_salt, rng, rng_on_entry, req, resp, calls, sent,
                   provider_failed, answered, dims, similarities, ranking>>

Dispatch ==
    /\ pc = "RuleDispatch"
    /\ LET branch == RuleBranch(req.q)
       IN  IF branch # 0
           THEN /\ resp' = SearchResponse(KNOWLEDGE_BASE[RuleDocument(branch)])
                /\ pc' = "Resolved"
           ELSE /\ pc' = "EmbeddingRank"
                /\ UNCHANGED resp
    /\ UNCHANGED <<env_key, hash_salt, rng, rng_on_entry, req, calls, sent,
                   provider_failed, answered, dims, similarities, ranking>>

\* The provider outcomes followed step by step: a failure, and answers of every
\* length up to the batch's that repeat one vector.
PhaseOutcomes ==
    { Failure } \cup
    { [fail |-> FALSE, data |-> [i \in 1..m |-> v]] :
          m \in 0..(1 + Len(KNOWLEDGE_BASE)), v \in Vectors }

\* The provider is asked only with a real key; the mock needs no outcome.
RankOutcomes(api_key) == IF UsesMock(api_key) THEN { Failure } ELSE PhaseOutcomes

\* The else branch of search on the mock backend, which asks no provider: a
\* function of the query, the key, the process's hash salt and the generator.
mock_rank ==
    [q \in { x \in PhaseQueries : RuleBranch(x) = 0 } |->
        [api_key \in { "", "dummy-api-key" } |->
            [salt \in Salts |->
                [r \in (-1)..(SeedMod - 1) |->
                    embedding_search(q, api_key, salt, r, Failure)]]]]

\* httpx.post is given timeout=30.0: the provider's answer or failure arrives.
Rank ==
    /\ pc = "EmbeddingRank"
    /\ LET api_key == getenv(env_key, "dummy-api-key")
       IN  \E out \in RankOutcomes(api_key) :
              LET t == IF UsesMock(api_key)
                       THEN mock_rank[req.q][api_key][hash_salt][rng]
                       ELSE embedding_search(req.q, api_key, hash_salt, rng, out)
              IN  /\ resp' = t.resp
                  /\ calls' = t.calls
                  /\ sent' = t.sent
                  /\ similarities' = t.similarities
                  /\ ranking' = t.ranking
                  /\ rng' = t.rng
                  /\ provider_failed' = (~UsesMock(api_key) /\ out.fail)
                  /\ answered' = (IF ~UsesMock(api_key) /\ ~out.fail THEN 1 ELSE 0)
                  /\ dims' = (IF UsesMock(api_key) THEN <<>> ELSE Dimensions(out.data))
                  /\ pc' = IF t.resp.status = 200 THEN "Resolved" ELSE "Failed"
    /\ UNCHANGED <<env_key, hash_salt, rng_on_entry, req>>

Deliver ==
    /\ pc \in { "Resolved", "Failed" }
    /\ pc' = "idle"
    /\ req' = NoRequest
    /\ resp' = NoResponse
    /\ calls' = <<>>
    /\ sent' = 0
    /\ provider_failed' = FALSE
    /\ answered' = 0
    /\ dims' = <<>>
    /\ similarities' = <<>>
    /\ ranking' = <<>>
    /\ rng_on_entry' = -1
    /\ UNCHANGED <<env_key, hash_salt, rng>>

PhaseNext ==
    \/ Receive
    \/ Dispatch
    \/ Rank
    \/ Deliver

\* The handler is straight-line code around one provider call with a timeout:
\* a phase that can be left is left.
PhaseSpec == Init /\ [][PhaseNext]_vars /\ WF_vars(Dispatch) /\ WF_vars(Rank)

(************************ vectors of several dimensions ********************)
\* The services with a provider whose vectors have one, two or three components.
Vec1 == << 1 >>
Vec3 == << 1, 0, 1 >>

DimVectors == { Vec1, VecA, VecB, Vec3 }

\* A rule hit and a rule miss.
DimQueries == { KW_ARROW, P_SyntaxCaps }

\* The provider fails, or answers the batch of search in full.
DimOutcomes ==
    { Failure } \cup
    { [fail |-> FALSE, data |-> d] : d \in [1..(1 + Len(KNOWLEDGE_BASE)) -> DimVectors] }

DimAnswers(ncalls) == UNION { [1..k -> DimVectors] : k \in 0..ncalls }

DimSearch == SearchFrom(DimQueries, DimOutcomes)

DimSimilarity == SimilarityFrom(DimAnswers)

DimNext ==
    \/ DimSearch
    \/ DimSimilarity
    \/ Respond

DimSpec == Init /\ [][DimNext]_vars

(************************ queries in several cases *************************)
\* /search on keywords written in lower case, in upper case, and with the
\* dotless i and the long s in place of i and s.
ExplicitDotless == << "e", "x", "p", "l", DotlessI, "c", DotlessI, "t" >>
SyntaxLongS == << LongS, "y", "n", "t", "a", "x" >>

CasePieces ==
    { KW_ARROW, KW_FAT_ARROW, KW_SYNTAX, SyntaxLongS, KW_BOOLEAN, KW_EXPLICIT,
      ExplicitDotless }

LowerCaseQueries ==
    CasePieces \cup { a \o << " " >> \o b : a \in CasePieces, b \in CasePieces }

CaseQueries == LowerCaseQueries \cup { Upper(q) : q \in LowerCaseQueries }

CaseSearch == SearchFrom(CaseQueries, PhaseOutcomes)

CaseNext ==
    \/ CaseSearch
    \/ Respond

CaseSpec == Init /\ [][CaseNext]_vars

(************************ properties ***************************************)
SearchDone == pc = "done" /\ req.endpoint = "search"

SimilarityDone == pc = "done" /\ req.endpoint = "similarity"

\* The search went down the embedding branch.
Ranked == SearchDone /\ calls # <<>>

MockConfigured == UsesMock(getenv(env_key, "dummy-api-key"))

Min(a, b) == IF a < b THEN a ELSE b

Injective(s) == \A i, j \in 1..Len(s) : s[i] = s[j] => i = j

\* The three keyword rules of /search, as the specification words them.
HasArrow(q) == Contains(KW_ARROW, q) \/ Contains(KW_FAT_ARROW, Lower(q))

HasDiscriminator(q) ==
    \/ Contains(KW_CALL, Lower(q))
    \/ Contains(KW_AFFECTIONATELY, Lower(q))
    \/ Contains(KW_SYNTAX, Lower(q))

HasBang(q) ==
    \/ Contains(KW_BANGBANG, q)
    \/ (Contains(KW_BOOLEAN, Lower(q))
        /\ (Contains(KW_CONVERT, Lower(q)) \/ Contains(KW_EXPLICIT, Lower(q))))

ArrowEntry == KNOWLEDGE_BASE[1]

OperatorsEntry == KNOWLEDGE_BASE[2]

\* C1: a /search query that satisfies a keyword rule is answered with the entry
\* bound to the first rule it satisfies (arrow with discriminator: Arrow
\* Functions; !!: Operators; arrow alone: Arrow Functions), and get_embeddings is
\* not called during the request: no call, nothing sent, generator untouched.
C1_RuleHitBypassesEmbeddings ==
    (SearchDone /\ (HasArrow(req.q) \/ HasBang(req.q))) =>
        /\ resp = SearchResponse(IF HasArrow(req.q) /\ HasDiscriminator(req.q) THEN ArrowEntry
                                 ELSE IF HasBang(req.q) THEN OperatorsEntry
                                 ELSE ArrowEntry)
        /\ calls = <<>>
        /\ sent = 0

\* A rule hit with a provider credential configured, answered without a call.
C1_Witness ==
    /\ SearchDone
    /\ env_key = "sk-live"
    /\ req.q = KW_ARROW \o KW_BANGBANG
    /\ resp.sources = "TypeScript Book - Operators"
    /\ calls = <<>>

\* C2: a successful /similarity response over n documents lists min(3, n)
\* matches, which are the documents at pairwise distinct positions of the input,
\* in order of non-increasing similarity.
C2_TopThreeShape ==
    (SimilarityDone /\ resp.status = 200) =>
        /\ Len(resp.matches) = Min(3, Len(req.docs))
        /\ Len(ranking) = Len(resp.matches)
        /\ \A i \in 1..Len(ranking) : ranking[i] \in 1..Len(req.docs)
        /\ Injective(ranking)
        /\ \A i \in 1..Len(ranking) : resp.matches[i] = req.docs[ranking[i]]
        /\ \A i, j \in 1..Len(ranking) :
              i < j => ~FloatLt(similarities[ranking[i]], similarities[ranking[j]])

\* Four documents with three different scores among the three returned.
C2_Witness ==
    /\ SimilarityDone
    /\ resp.status = 200
    /\ Len(req.docs) = 4
    /\ Len(resp.matches) = 3
    /\ FloatLt(similarities[ranking[2]], similarities[ranking[1]])
    /\ FloatLt(similarities[ranking[3]], similarities[ranking[2]])

\* C3: in a /similarity response, of two documents with equal scores the one
\* with the smaller index comes first, and is the one kept at the cut-off.
C3_TiesByAscendingIndex ==
    (SimilarityDone /\ resp.status = 200) =>
        /\ \A i, j \in 1..Len(ranking) :
              (i < j /\ FloatEq(similarities[ranking[i]], similarities[ranking[j]]))
                  => ranking[i] < ranking[j]
        /\ \A i \in 1..Len(ranking) : \A k \in 1..Len(req.docs) :
              ((\A j \in 1..Len(ranking) : ranking[j] # k)
               /\ FloatEq(similarities[ranking[i]], similarities[k]))
                  => ranking[i] < k

\* C4: on a rule miss, /search answers with the entry whose score is maximal
\* over the five entries, the smallest index among those with that score.
\* Stated for the calls that scored all five.
C4_BestIsFirstMaximum ==
    (Ranked /\ resp.status = 200 /\ Len(similarities) = Len(KNOWLEDGE_BASE)) =>
        \E b \in 1..Len(similarities) :
            /\ resp = SearchResponse(KNOWLEDGE_BASE[b])
            /\ \A i \in 1..Len(similarities) : ~FloatLt(similarities[b], similarities[i])
            /\ \A i \in 1..(b - 1) : ~FloatEq(similarities[i], similarities[b])

\* C4 where the five scores are numbers: the statement holds there.
C4_OnFiveNumbers ==
    (/\ Ranked
     /\ Len(similarities) = Len(KNOWLEDGE_BASE)
     /\ \A i \in 1..Len(similarities) : ~similarities[i].nan) =>
        \E b \in 1..Len(similarities) :
            /\ resp = SearchResponse(KNOWLEDGE_BASE[b])
            /\ \A i \in 1..Len(similarities) : ~FloatLt(similarities[b], similarities[i])
            /\ \A i \in 1..(b - 1) : FloatLt(similarities[i], similarities[b])

\* C5: with the mock backend, the output of /search for a query (document and
\* scores) is the same in every process instance and after any earlier calls:
\* whatever the hash salt and the generator's state.
C5_MockOutputSameInEveryProcess ==
    (Ranked /\ MockConfigured) =>
        \A salt \in Salts : \A r \in { -1 } \cup (0..(SeedMod - 1)) :
            LET other == search(req.q, env_key, salt, r, Failure)
            IN  other.resp = resp /\ other.similarities = similarities

\* C6: the mock vector of a knowledge-base document is the same whatever query
\* shares its batch.
C6_MockVectorByContentAlone ==
    (Ranked /\ MockConfigured) =>
        \A q2 \in Queries : \A i \in 2..(1 + Len(Contents)) :
            mock_embeddings(<< q2 >> \o Contents, hash_salt)[i]
                = mock_embeddings(<< req.q >> \o Contents, hash_salt)[i]

\* C7: no retrieval call that scored a zero vector succeeds: /search never ranks
\* a NaN score, and no successful /similarity response comes from provider
\* answers that hold a zero vector.
C7_ZeroVectorFailsTheCall ==
    /\ (Ranked /\ resp.status = 200) =>
          \A i \in 1..Len(similarities) : ~similarities[i].nan
    /\ (SimilarityDone /\ resp.status = 200) =>
          \A d \in [1..(Len(req.docs) + 1) -> Vectors] :
              similarity_scores(req.docs, d) = similarities
                  => \A i \in 1..Len(d) : d[i] # ZeroVec

\* C8: a /similarity request with no documents is answered 400, with no call to
\* get_embedding and no matches.
C8_EmptyDocsRejected ==
    (SimilarityDone /\ Len(req.docs) = 0) =>
        /\ resp = HTTPException(400, "Docs and query cannot be empty.")
        /\ calls = <<>>
        /\ sent = 0

\* No documents, a query, and a credential: rejected all the same.
C8_Witness ==
    /\ SimilarityDone
    /\ Len(req.docs) = 0
    /\ Len(req.q) > 0
    /\ env_key = "sk-live"
    /\ resp.status = 400

\* C9: every entry point answers an empty query with a client error and without
\* calling the embedding provider.
C9_EmptyQueryRejected ==
    (pc = "done" /\ Len(req.q) = 0) =>
        /\ resp.status \in 400..499
        /\ calls = <<>>

\* C10: a /search query with an arrow token and one of call, affectionately,
\* syntax is answered with the first entry, whatever else it contains.
C10_ArrowWithDiscriminator ==
    (SearchDone /\ HasArrow(req.q) /\ HasDiscriminator(req.q)) =>
        /\ resp.status = 200
        /\ resp.answer = KNOWLEDGE_BASE[1].content
        /\ Contains(KW_FAT_ARROW, resp.answer)
        /\ resp.sources = "TypeScript Book - Arrow Functions"

\* The question of scenario A behind a !!, which the second rule would claim.
C10_Witness ==
    /\ SearchDone
    /\ req.q = KW_BANGBANG \o ScenarioA
    /\ resp.sources = "TypeScript Book - Arrow Functions"

\* C11: a /search query that does not satisfy the first rule and contains "!!",
\* or "boolean" with "convert" or "explicit" in any case, is answered 200 with
\* the second entry, sources "TypeScript Book - Operators".
C11_BangPredicateGivesOperators ==
    (SearchDone /\ ~(HasArrow(req.q) /\ HasDiscriminator(req.q)) /\ HasBang(req.q)) =>
        /\ resp.status = 200
        /\ resp.answer = KNOWLEDGE_BASE[2].content
        /\ resp.sources = "TypeScript Book - Operators"

\* The question of scenario B, which has no "!!": boolean with explicit.
C11_Witness ==
    /\ SearchDone
    /\ req.q = ScenarioB
    /\ ~Contains(KW_BANGBANG, req.q)
    /\ resp.sources = "TypeScript Book - Operators"

\* The rules of /search in their order: is rule k satisfied by q?
RuleSatisfied(k, q) ==
    CASE k = 1 -> HasArrow(q) /\ HasDiscriminator(q)
      [] k = 2 -> HasBang(q)
      [] k = 3 -> HasArrow(q)

BoundEntry(k) == IF k = 2 THEN OperatorsEntry ELSE ArrowEntry

\* C12: the first satisfied rule, in the order (1) arrow with discriminator,
\* (2) !!/boolean, (3) arrow alone, decides the response; a query with an arrow
\* token and the !! predicate gets Arrow Functions if it has a discriminator
\* and Operators otherwise.
C12_FirstSatisfiedRuleWins ==
    SearchDone =>
        /\ \A k \in 1..3 :
              (RuleSatisfied(k, req.q) /\ \A j \in 1..(k - 1) : ~RuleSatisfied(j, req.q))
                  => resp = SearchResponse(BoundEntry(k))
        /\ (HasArrow(req.q) /\ HasBang(req.q)) =>
              resp.sources = (IF HasDiscriminator(req.q)
                              THEN "TypeScript Book - Arrow Functions"
                              ELSE "TypeScript Book - Operators")

\* An arrow token behind a !! and no discriminator: the second rule decides,
\* although the third is satisfied too.
C12_Witness ==
    /\ SearchDone
    /\ req.q = KW_BANGBANG \o P_FatArrowCaps
    /\ RuleSatisfied(2, req.q) /\ RuleSatisfied(3, req.q) /\ ~RuleSatisfied(1, req.q)
    /\ resp.sources = "TypeScript Book - Operators"

ExecuteDone == pc = "done" /\ req.endpoint = "execute"

\* The JSON integer a string of digits denotes: the digits without leading zeros.
RECURSIVE JsonInteger(_)
JsonInteger(n) == IF Len(n) > 1 /\ Head(n) = "0" THEN JsonInteger(Tail(n)) ELSE n

\* The template sentences whose numbers have at most maxdigits digits are
\* answered with the template's function and the JSON object of the slots.
TemplateAnswers(maxdigits) ==
    ExecuteDone =>
        /\ \A n \in NumberTexts :
              (Len(n) <= maxdigits /\ req.q = TicketQuery(n)) =>
                  resp = FunctionCallResponse("get_ticket_status",
                             json_dumps(<< Member(K_ticket_id, JsonInteger(n)) >>))
        /\ \A s \in MeetingSlots :
              req.q = MeetingQuery(s[1], s[2], s[3]) =>
                  resp = FunctionCallResponse("schedule_meeting",
                             json_dumps(<< Member(K_date, JsonString(s[1])),
                                           Member(K_time, JsonString(s[2])),
                                           Member(K_meeting_room, JsonString(s[3])) >>))
        /\ \A n \in NumberTexts :
              (Len(n) <= maxdigits /\ req.q = ExpenseQuery(n)) =>
                  resp = FunctionCallResponse("get_expense_balance",
                             json_dumps(<< Member(K_employee_id, JsonInteger(n)) >>))
        /\ \A s \in BonusSlots :
              (Len(s[1]) <= maxdigits /\ Len(s[2]) <= maxdigits
                  /\ req.q = BonusQuery(s[1], s[2])) =>
                  resp = FunctionCallResponse("calculate_performance_bonus",
                             json_dumps(<< Member(K_employee_id, JsonInteger(s[1])),
                                           Member(K_current_year, JsonInteger(s[2])) >>))
        /\ \A s \in IssueSlots :
              (Len(s[1]) <= maxdigits /\ req.q = IssueQuery(s[1], s[2])) =>
                  resp = FunctionCallResponse("report_office_issue",
                             json_dumps(<< Member(K_issue_code, JsonInteger(s[1])),
                                           Member(K_department, JsonString(s[2])) >>))

\* C13: every sentence of one of the five /execute templates is answered with
\* the template's function name and the JSON encoding of its slots, integer
\* slots as JSON integers and text slots as JSON strings.
C13_TemplateInstanceResolved == TemplateAnswers(Len(LongNumber))

\* C13 where every number has at most INT_MAX_STR_DIGITS digits: the statement
\* holds there.
C13_OnConvertibleNumbers == TemplateAnswers(INT_MAX_STR_DIGITS)

\* C14: a /execute query that is a sentence of none of the five templates is
\* answered 400 "Query did not match any known function pattern.".
C14_NoTemplateIsClientError ==
    (ExecuteDone /\ req.q \notin Instances) => resp = NoPattern

\* The request needs embeddings: a rule miss of /search, or a /similarity
\* request with documents and a query.
NeedsEmbeddings ==
    \/ SearchDone /\ ~HasArrow(req.q) /\ ~HasBang(req.q)
    \/ SimilarityDone /\ Len(req.docs) > 0 /\ Len(req.q) > 0

\* The texts of the request, each named by its position: the query and the
\* corpus, in the order the handler hands them over.
AllTexts ==
    IF req.endpoint = "search" THEN [i \in 1..(1 + Len(KNOWLEDGE_BASE)) |-> i]
    ELSE [i \in 1..(Len(req.docs) + 1) |-> i]

\* C15: a /search or /similarity request that ranks by embeddings makes exactly
\* one embedding call, and that call carries the query and every corpus text.
C15_OneBatchedProviderCall ==
    (NeedsEmbeddings /\ ranking # <<>>) => calls = << AllTexts >>

\* C16: with no credential configured, a /search or /similarity request that
\* needs embeddings is served by the mock backend: it is answered 200 with a
\* ranked result and no request is sent to the provider.
C16_NoCredentialMeansMock ==
    (NeedsEmbeddings /\ env_key \in { Unset, "" }) =>
        /\ resp.status = 200
        /\ ranking # <<>>
        /\ sent = 0

\* C17: if a provider call of a request failed, the response is an error, it
\* carries no answer and no matches, and nothing was scored or ranked.
C17_ProviderFailureFailsTheCall ==
    (pc = "done" /\ provider_failed) =>
        /\ resp.status >= 400
        /\ resp.answer = <<>>
        /\ resp.sources = ""
        /\ resp.matches = <<>>
        /\ similarities = <<>>
        /\ ranking = <<>>

\* The third get_embedding call of a /similarity request failed, after two
\* documents had been embedded.
C17_Witness ==
    /\ SimilarityDone
    /\ provider_failed
    /\ Len(req.docs) = 4
    /\ sent = 3
    /\ resp.status = 500

\* C18: when the provider answers the batch of /search with fewer vectors than
\* texts, the call fails.
C18_ShortBatchFailsTheCall ==
    (Ranked /\ sent = 1 /\ ~provider_failed /\ Len(similarities) < Len(KNOWLEDGE_BASE)) =>
        resp.status >= 400

RuleMiss(q) == ~HasArrow(q) /\ ~HasBang(q)

\* C20: a /search call goes RuleDispatch -> (on a rule miss only) EmbeddingRank
\* -> Resolved or Failed; rule dispatch is entered from idle only; Resolved
\* carries an answer and sources, Failed an error; and a call that has entered
\* rule dispatch reaches Resolved or Failed.
C20_PhasesAndTermination ==
    /\ [][/\ pc = "RuleDispatch" =>
              pc' = (IF RuleMiss(req.q) THEN "EmbeddingRank" ELSE "Resolved")
          /\ pc = "EmbeddingRank" => pc' \in { "Resolved", "Failed" }
          /\ pc \in { "Resolved", "Failed" } => pc' = "idle"
          /\ pc' = "RuleDispatch" => pc = "idle"]_vars
    /\ [](pc = "Resolved" =>
             resp.status = 200 /\ resp.answer # <<>> /\ resp.sources # "")
    /\ [](pc = "Failed" => resp.status >= 400 /\ resp.answer = <<>>)
    /\ (pc = "RuleDispatch") ~> (pc \in { "Resolved", "Failed" })

\* A call that failed in the embedding branch, the provider having failed.
C20_Witness ==
    /\ pc = "Failed"
    /\ provider_failed
    /\ sent = 1
    /\ resp.status = 500

\* The texts handed to the embedding calls of the request, in order.
RECURSIVE Submitted(_)
Submitted(batches) ==
    IF batches = <<>> THEN <<>> ELSE Head(batches) \o Submitted(Tail(batches))

FullAnswer == [fail |-> FALSE, data |-> [i \in 1..(1 + Len(KNOWLEDGE_BASE)) |-> VecB]]

\* What a request can be answered with from a given state of the process, once
\* the provider answers every request in full.
RetryResults(request, key, salt, r) ==
    IF request.endpoint = "search"
    THEN { search(request.q, key, salt, r, FullAnswer).resp }
    ELSE LET d == [i \in 1..(Len(request.docs) + 1) |-> VecB]
         IN  { get_similarity(request.docs, request.q, key, r, d, top).resp :
                  top \in top_3_indices(similarity_scores(request.docs, d)) }

\* C22: a /search or /similarity call that ends in an error changes nothing a
\* later call reads (the environment, the hash salt, the generator), takes the
\* rule-or-embedding decision a retry takes, and a retry the provider answers
\* returns what the call would have returned in its place.
C22_FailedCallLeavesNoTrace ==
    [][(/\ pc = "idle"
        /\ pc' = "done"
        /\ req'.endpoint \in { "search", "similarity" }
        /\ resp'.status >= 400) =>
           /\ env_key' = env_key
           /\ hash_salt' = hash_salt
           /\ rng' = rng
           /\ RetryResults(req', env_key', hash_salt', rng')
                 = RetryResults(req', env_key, hash_salt, rng)]_vars

\* A /search call the provider failed, in a process whose hash salt is 1.
C22_Witness ==
    /\ SearchDone
    /\ provider_failed
    /\ resp.status = 500
    /\ rng = rng_on_entry
    /\ hash_salt = 1
    /\ answered = 0

\* C23: a /search call in which a document's vector has another dimension than
\* the query's, and a /similarity call in which a document's vector has another
\* dimension than the query's, end in an error: no score for the unequal pair,
\* no ranking, no answer and no matches.
C23_DimensionMismatchFails ==
    /\ (SearchDone /\ \E i \in 2..Len(dims) : dims[i] # dims[1]) =>
          /\ resp.status >= 400
          /\ resp.answer = <<>>
          /\ resp.sources = ""
          /\ ranking = <<>>
          /\ \A i \in 2..Len(dims) : dims[i] # dims[1] => Len(similarities) < i - 1
    /\ (/\ SimilarityDone
        /\ Len(dims) = Len(req.docs) + 1
        /\ \E i \in 1..Len(req.docs) : dims[i] # dims[Len(dims)]) =>
          /\ resp.status >= 400
          /\ resp.matches = <<>>
          /\ similarities = <<>>
          /\ ranking = <<>>

\* A /search call whose second document came back with three components after
\* a query and a first document of two.
C23_Witness ==
    /\ SearchDone
    /\ dims = << 2, 2, 3, 2, 2, 2 >>
    /\ Len(similarities) = 1
    /\ resp.status = 500

\* The query is a template sentence with more characters behind it.
HasInstanceInFront(q) ==
    q \notin Instances /\ \E k \in 1..(Len(q) - 1) : SubSeq(q, 1, k) \in Instances

\* C24: a /execute query that is a template sentence followed by more
\* characters conforms to no template and is answered 400.
C24_WholeQueryOnly ==
    (ExecuteDone /\ HasInstanceInFront(req.q)) => resp.status = 400

\* C25: the branch /search takes on a query is the branch it takes on the query
\* with its letters in upper case and with its letters in lower case.
C25_CaseInvariantBranch ==
    SearchDone =>
        /\ RuleBranch(Upper(req.q)) = RuleBranch(req.q)
        /\ RuleBranch(Lower(req.q)) = RuleBranch(req.q)

\* C25 on queries whose letters are all ASCII: the statement holds there.
C25_OnAsciiLetters ==
    (SearchDone /\ ~Contains(<< DotlessI >>, req.q) /\ ~Contains(<< LongS >>, req.q)) =>
        /\ RuleBranch(Upper(req.q)) = RuleBranch(req.q)
        /\ RuleBranch(Lower(req.q)) = RuleBranch(req.q)

\* The entries of KNOWLEDGE_BASE a response of /search agrees with in both fields.
EntriesOf(response) ==
    { i \in 1..Len(KNOWLEDGE_BASE) :
        /\ response.answer = KNOWLEDGE_BASE[i].content
        /\ response.sources = KNOWLEDGE_BASE[i].source }

\* C26: a 200 response of /search, from a rule or from the ranking, carries the
\* content and the source of one and the same KNOWLEDGE_BASE entry, and neither
\* is empty.
C26_AnswerAndSourceOfOneEntry ==
    (SearchDone /\ resp.status = 200) =>
        /\ Cardinality(EntriesOf(resp)) = 1
        /\ resp.answer # <<>>
        /\ resp.sources # ""
        /\ (ranking # <<>> => EntriesOf(resp) = { ranking[1] })
        /\ (RuleBranch(req.q) # 0 => EntriesOf(resp) = { RuleDocument(RuleBranch(req.q)) })

C26_Witness ==
    /\ SearchDone
    /\ resp.status = 200
    /\ answered = 1
    /\ ranking # <<>>
    /\ ranking[1] = 4
    /\ EntriesOf(resp) = { 4 }

\* The five templates in the order execute_function_call tries them, and the
\* function each one resolves to.
Templates ==
    << TicketPattern, MeetingPattern, ExpensePattern, BonusPattern, IssuePattern >>

FunctionNames ==
    << "get_ticket_status", "schedule_meeting", "get_expense_balance",
       "calculate_performance_bonus", "report_office_issue" >>

\* The templates that match at the start of q.
Matching(q) == { t \in 1..Len(Templates) : re_match(Templates[t], q).ok }

\* The template that resolves a query when they are tried in the given order
\* (0 when none matches).
FirstIn(order, matching) ==
    LET hits == { k \in 1..Len(order) : order[k] \in matching }
    IN  IF hits = {} THEN 0 ELSE order[SetMin(hits)]

\* The text every match of a template starts with.
LeadingText(t) == Templates[t][1].text

\* C27: no query matches two of the five templates (the text one template starts
\* with is never the start of another's), so whatever the order in which they
\* are tried, the same template resolves the query, and it is the one the
\* response comes from.
C27_TemplatesExclusive ==
    ExecuteDone =>
        LET matching == Matching(req.q)
            first == FirstIn([k \in 1..Len(Templates) |-> k], matching)
        IN  /\ Cardinality(matching) <= 1
            /\ \A a, b \in 1..Len(Templates) :
                  a # b => ~StartsWithAt(LeadingText(a), 1, LeadingText(b))
            /\ \A order \in Permutations(1..Len(Templates)) :
                  FirstIn(order, matching) = first
            /\ (first = 0 <=> resp = NoPattern)
            /\ (resp.status = 200 => resp.name = FunctionNames[first])

C27_Witness ==
    /\ ExecuteDone
    /\ Matching(req.q) = { 4 }
    /\ resp.status = 200
    /\ resp.name = "calculate_performance_bonus"
    /\ req.q \notin Instances

\* C28: /similarity with OPENAI_API_KEY unset and with documents and a query
\* answers 401 with the missing-key detail, not 500, and nothing has been sent
\* to the provider.
C28_UnsetKeyIs401 ==
    (SimilarityDone /\ env_key = Unset /\ Len(req.docs) > 0 /\ Len(req.q) > 0) =>
        /\ resp.status = 401
        /\ resp.detail = KeyMissing
        /\ resp.matches = <<>>
        /\ sent = 0
        /\ answered = 0
        /\ ~provider_failed

C28_Witness ==
    /\ SimilarityDone
    /\ env_key = Unset
    /\ Len(req.docs) = 3
    /\ Len(req.q) > 0
    /\ resp = HTTPException(401, KeyMissing)
    /\ calls = << << 1 >> >>
    /\ sent = 0

====
